---------------------------- MODULE Spec2Model ----------------------------
(***************************************************************************)
(* Model of admin_async_upload.files.ResumableFile: chunk naming, chunk    *)
(* accounting, merge and commit of resumable (chunked) uploads.            *)
(*                                                                         *)
(* Strings are sequences of one-character strings, so that basename,       *)
(* zfill, posixpath.join/split, fnmatch and sorted() are computed          *)
(* character by character as the Python code computes them.  Byte strings  *)
(* are sequences of small naturals.  Both storages are key-addressed byte  *)
(* stores: functions from keys (strings) to byte strings.                  *)
(***************************************************************************)
EXTENDS Naturals, Integers, Sequences, FiniteSets, TLC

VARIABLES
    chunk_storage,   \* self.chunk_storage : chunk key -> bytes
    field_storage,   \* self.field_storage : stored path -> bytes
    lastOp,          \* the last call: its name, its request, the body sent, what
                     \* process_chunk found stored at its chunk key, the exception
                     \* raised ("": none) and the value returned
    opened,          \* chunk keys opened for reading by the last call, in order
    calls            \* the calls that run step by step, one per worker of the
                     \* server: the position of each in the code of its method
                     \* and the values it holds

vars == <<chunk_storage, field_storage, lastOp, opened, calls>>

---------------------------------------------------------------------------
(* Bounds of the model *)

\* at most this many objects are held by the persistent storage
MaxFiles == 2

---------------------------------------------------------------------------
(* Characters and strings *)

\* the characters used, in code point order (the order sorted() compares by)
Alphabet ==
    <<"!", "*", ".", "/", "0", "1", "2", "3", "4", "5", "6", "7", "8", "9",
      "?", "[", "]", "_", "a", "c", "d", "e", "f", "h", "k", "n", "o", "p",
      "r", "s", "t", "u", "w", "y", "~">>

\* ord(c), as the position in Alphabet
OrdTable ==
    [c \in {Alphabet[i] : i \in 1..Len(Alphabet)} |->
        CHOOSE i \in 1..Len(Alphabet) : Alphabet[i] = c]

Ord(c) == OrdTable[c]

Digits == {"0", "1", "2", "3", "4", "5", "6", "7", "8", "9"}

\* \w of a Python regular expression, restricted to the alphabet
WordChars == Digits \cup {"_", "a", "c", "d", "e", "f", "h", "k", "n", "o", "p",
                          "r", "s", "t", "u", "w", "y"}

\* str < str of Python, from index i on: lexicographic by code point, a proper
\* prefix is smaller
RECURSIVE StrLessAt(_, _, _)
StrLessAt(a, b, i) ==
    IF i > Len(b) THEN FALSE
    ELSE IF i > Len(a) THEN TRUE
    ELSE IF a[i] = b[i] THEN StrLessAt(a, b, i + 1)
    ELSE Ord(a[i]) < Ord(b[i])

StrLess(a, b) == StrLessAt(a, b, 1)

\* sorted(S) for a set of distinct strings
RECURSIVE Sorted(_)
Sorted(S) ==
    IF S = {} THEN <<>>
    ELSE LET m == CHOOSE x \in S : \A y \in S \ {x} : StrLess(x, y)
         IN  <<m>> \o Sorted(S \ {m})

\* s.rfind("/", 0, i) + 1 : the index just after the last "/" of s[1..i], 0
\* when there is none
RECURSIVE RFindSlashAt(_, _)
RFindSlashAt(s, i) ==
    IF i = 0 THEN 0 ELSE IF s[i] = "/" THEN i ELSE RFindSlashAt(s, i - 1)

RFindSlash(s) == RFindSlashAt(s, Len(s))

\* head.rstrip("/")
RECURSIVE RStripSlash(_)
RStripSlash(s) ==
    IF s # <<>> /\ s[Len(s)] = "/" THEN RStripSlash(SubSeq(s, 1, Len(s) - 1))
    ELSE s

\* os.path.basename / posixpath.basename
Basename(s) == SubSeq(s, RFindSlash(s) + 1, Len(s))

\* posixpath.split(p)[0]
Dirname(s) ==
    LET head == SubSeq(s, 1, RFindSlash(s))
    IN  IF head # <<>> /\ \E i \in 1..Len(head) : head[i] # "/"
        THEN RStripSlash(head) ELSE head

\* posixpath.join(a, b)
PathJoin(a, b) ==
    IF b # <<>> /\ b[1] = "/" THEN b
    ELSE IF a = <<>> \/ a[Len(a)] = "/" THEN a \o b
    ELSE a \o <<"/">> \o b

\* str.zfill(width): pad with "0" on the left, after a leading sign
RECURSIVE ZFill(_, _)
ZFill(s, width) ==
    IF Len(s) >= width THEN s
    ELSE IF s # <<>> /\ s[1] \in {"+", "-"}
         THEN <<s[1]>> \o ZFill(Tail(s), width - 1)
         ELSE ZFill(<<"0">> \o s, width)

\* int(s) for a string of decimal digits; -1 stands for the ValueError raised
\* for any other string of the alphabet
RECURSIVE DigitsValue(_)
DigitsValue(s) ==
    IF s = <<>> THEN 0
    ELSE 10 * DigitsValue(SubSeq(s, 1, Len(s) - 1)) + (Ord(s[Len(s)]) - Ord("0"))

ParseInt(s) ==
    IF s # <<>> /\ \A i \in 1..Len(s) : s[i] \in Digits THEN DigitsValue(s) ELSE -1

\* str(n) for a natural number
RECURSIVE Str(_)
Str(n) ==
    IF n < 10 THEN <<Alphabet[Ord("0") + n]>>
    ELSE Str(n \div 10) \o <<Alphabet[Ord("0") + (n % 10)]>>

\* the index of the "]" that closes the character class opened by p[i] = "[",
\* or 0 when the class is not closed (fnmatch.translate: a "!" and then a "]"
\* right after the "[" do not close it)
ClassEnd(p, i) ==
    LET n  == Len(p)
        j1 == IF i + 1 <= n /\ p[i + 1] = "!" THEN i + 2 ELSE i + 1
        j2 == IF j1 <= n /\ p[j1] = "]" THEN j1 + 1 ELSE j1
        J  == {j \in j2..n : p[j] = "]"}
    IN  IF J = {} THEN 0 ELSE CHOOSE j \in J : \A k \in J : j <= k

\* whether name[k] is in the character class p[i..j] = "[seq]" or "[!seq]"
InClass(p, i, j, c) ==
    IF p[i + 1] = "!" THEN \A m \in (i + 2)..(j - 1) : p[m] # c
    ELSE \E m \in (i + 1)..(j - 1) : p[m] = c

\* fnmatch.fnmatch(name, pat) on POSIX (normcase is the identity), for name from
\* index k on and pat from index i on: "*" matches any run of characters, "?"
\* any one character, "[seq]" any character of seq, "[!seq]" any character not
\* in seq, an unclosed "[" and every other character match themselves; the
\* whole name must match.  The alphabet has no "-", so no character class
\* holds a range.
RECURSIVE FnMatchAt(_, _, _, _)
FnMatchAt(name, k, pat, i) ==
    IF i > Len(pat) THEN k > Len(name)
    ELSE IF pat[i] = "*"
         THEN FnMatchAt(name, k, pat, i + 1)
              \/ (k <= Len(name) /\ FnMatchAt(name, k + 1, pat, i))
    ELSE IF k > Len(name) THEN FALSE
    ELSE IF pat[i] = "?" THEN FnMatchAt(name, k + 1, pat, i + 1)
    ELSE IF pat[i] = "[" /\ ClassEnd(pat, i) # 0
         THEN InClass(pat, i, ClassEnd(pat, i), name[k])
              /\ FnMatchAt(name, k + 1, pat, ClassEnd(pat, i) + 1)
    ELSE name[k] = pat[i] /\ FnMatchAt(name, k + 1, pat, i + 1)

FnMatch(name, pat) == FnMatchAt(name, 1, pat, 1)

\* the elements of a sequence
Range(seq) == {seq[i] : i \in 1..Len(seq)}

---------------------------------------------------------------------------
(* Results of calls: a value, or a raised exception *)

Return(v) == [exc |-> "", val |-> v]
Raise(e)  == [exc |-> e, val |-> <<>>]
Raised(r) == r.exc # ""

InvalidFilename == "Invalid filename"          \* Exception("Invalid filename")
ChunksMissing   == "Chunk(s) still missing"    \* Exception("Chunk(s) still missing")
ValueError      == "ValueError"                \* int() of a string that is no integer
SaveFailed      == "save failed"               \* raised by field_storage.save
DeleteFailed    == "delete failed"             \* raised by chunk_storage.delete

---------------------------------------------------------------------------
(* The storage backends: key-addressed byte stores *)

EmptyStorage == [k \in {} |-> <<>>]

\* storage.exists(name)
StorageExists(st, name) == name \in DOMAIN st

\* storage.size(name)
StorageSize(st, name) == Len(st[name])

\* storage.listdir(directory)[1]: the names of the files directly in directory
StorageListFiles(st, directory) ==
    {Basename(k) : k \in {x \in DOMAIN st : Dirname(x) = directory}}

\* storage.delete(name)
StorageDelete(st, name) == [k \in DOMAIN st \ {name} |-> st[k]]

\* storage.get_available_name(name): name when it is free, otherwise name with
\* "_<n>" appended, for the least n that makes it free
RECURSIVE AlternativeName(_, _, _)
AlternativeName(st, name, n) ==
    IF name \o <<"_">> \o Str(n) \notin DOMAIN st THEN name \o <<"_">> \o Str(n)
    ELSE AlternativeName(st, name, n + 1)

StorageAvailableName(st, name) ==
    IF name \notin DOMAIN st THEN name ELSE AlternativeName(st, name, 1)

\* storage.save(name, content): the store after the save; the key used is
\* StorageAvailableName(st, name)
StorageSave(st, name, content) ==
    LET actual == StorageAvailableName(st, name)
    IN  [k \in DOMAIN st \cup {actual} |-> IF k = actual THEN content ELSE st[k]]

\* storage.get_valid_name(name): every character other than a word character,
\* "." and "-" is removed
ValidNameChars == WordChars \cup {".", "-"}

StorageValidName(name) == SelectSeq(name, LAMBDA c : c \in ValidNameChars)

---------------------------------------------------------------------------
(* ResumableFile: configuration *)

chunk_suffix        == <<"_", "p", "a", "r", "t", "_">>
chunks_subdirectory == <<"c", "h", "u", "n", "k", "s">>
\* field.upload_to, a string
upload_to           == <<"u", "p">>
\* width of the zero padding of the chunk number
ChunkNumberWidth    == 4

---------------------------------------------------------------------------
(* ResumableFile: properties.  self is [user, params]; user is a user id, or 0
   for no user; params holds the request's resumable* strings.  A property
   or method that reads other properties is split in two: the property
   itself, which evaluates what it reads, and a ...From operator, which is
   its body as a function of those values.  Within one call nothing else
   writes to the chunk storage, so every evaluation of chunk_names in the
   call gives the same list: the ...From operators take it once. *)

\* the filename property without the call of os.path.basename
FilenameWithDirectories(self) ==
    IF self.params.resumableFilename = <<>> THEN Raise(InvalidFilename)
    ELSE Return(self.params.resumableTotalSize \o <<"_">>
                    \o self.params.resumableFilename)

\* ResumableFile.filename
filename(self) ==
    IF Basename(self.params.resumableFilename) = <<>> THEN Raise(InvalidFilename)
    ELSE Return(self.params.resumableTotalSize \o <<"_">>
                \o Basename(self.params.resumableFilename))

\* a chunk subdirectory that is the same for every user
SharedDirectory(user) == <<"a", "n", "o", "n", "y", "m", "o", "u", "s">>

\* user_directory of current_chunk_name
UserDirectory(user) ==
    IF user # 0 THEN <<"u", "s", "e", "r", "_">> \o Str(user)
    ELSE <<"a", "n", "o", "n", "y", "m", "o", "u", "s">>

\* ResumableFile.current_chunk_name
ChunkNameFrom(self, fn) ==
    IF Raised(fn) THEN fn
    ELSE Return(PathJoin(PathJoin(chunks_subdirectory, UserDirectory(self.user)),
                         fn.val \o chunk_suffix
                         \o ZFill(self.params.resumableChunkNumber, ChunkNumberWidth)))

current_chunk_name(self) == ChunkNameFrom(self, filename(self))

\* ResumableFile.chunk_names: the sorted list of the chunk keys of this file
ChunkNamesFrom(cs, fn, ccn) ==
    IF Raised(ccn) THEN ccn
    ELSE Return(Sorted({PathJoin(Dirname(ccn.val), f) :
                   f \in {x \in StorageListFiles(cs, Dirname(ccn.val)) :
                            FnMatch(x, fn.val \o chunk_suffix \o <<"*">>)}}))

chunk_names(cs, self) == ChunkNamesFrom(cs, filename(self), current_chunk_name(self))

\* ResumableFile.size
RECURSIVE SumSizes(_, _)
SumSizes(cs, names) ==
    IF names = <<>> THEN 0
    ELSE StorageSize(cs, Head(names)) + SumSizes(cs, Tail(names))

SizeFrom(cs, names) ==
    IF Raised(names) THEN names ELSE Return(SumSizes(cs, names.val))

size(cs, self) == SizeFrom(cs, chunk_names(cs, self))

\* ResumableFile.is_complete: int(resumableTotalSize) is evaluated first
IsCompleteFrom(total, sz) ==
    IF total = -1 THEN Raise(ValueError)
    ELSE IF Raised(sz) THEN sz
    ELSE Return(total = sz.val)

is_complete(cs, self) ==
    IsCompleteFrom(ParseInt(self.params.resumableTotalSize), size(cs, self))

\* chunk_exists without the comparison of the stored size
ChunkExistsIgnoringSize(cs, expected_size, ccn) ==
    IF expected_size = -1 THEN Raise(ValueError)
    ELSE IF Raised(ccn) THEN ccn
    ELSE Return(StorageExists(cs, ccn.val))

\* ResumableFile.chunk_exists: int(resumableCurrentChunkSize) is evaluated first
ChunkExistsFrom(cs, expected_size, ccn) ==
    IF expected_size = -1 THEN Raise(ValueError)
    ELSE IF Raised(ccn) THEN ccn
    ELSE Return(StorageExists(cs, ccn.val)
                /\ StorageSize(cs, ccn.val) = expected_size)

chunk_exists(cs, self) ==
    ChunkExistsFrom(cs, ParseInt(self.params.resumableCurrentChunkSize),
                    current_chunk_name(self))

\* ResumableFile.chunks: the contents of the chunks, in chunk_names order
RECURSIVE ReadAll(_, _)
ReadAll(cs, names) ==
    IF names = <<>> THEN <<>> ELSE cs[Head(names)] \o ReadAll(cs, Tail(names))

chunks(cs, self) == ReadAll(cs, chunk_names(cs, self).val)

\* the file property without the test of is_complete
FileUnchecked(cs, self, names) ==
    IF Raised(names) THEN [exc |-> names.exc, val |-> <<>>, opened |-> <<>>]
    ELSE [exc |-> "", val |-> ReadAll(cs, names.val), opened |-> names.val]

\* ResumableFile.file: the merged bytes, and the chunk keys opened to read them
FileFrom(cs, self, names) ==
    LET complete == IsCompleteFrom(ParseInt(self.params.resumableTotalSize),
                                   SizeFrom(cs, names))
    IN  IF Raised(complete)
        THEN [exc |-> complete.exc, val |-> <<>>, opened |-> <<>>]
        ELSE IF ~complete.val
        THEN [exc |-> ChunksMissing, val |-> <<>>, opened |-> <<>>]
        ELSE [exc |-> "", val |-> ReadAll(cs, names.val), opened |-> names.val]

file(cs, self) == FileFrom(cs, self, chunk_names(cs, self))

\* ResumableFile.storage_filename, for upload_to a string
StorageFilenameFrom(fs, raw_path) ==
    StorageAvailableName(fs,
        PathJoin(Dirname(raw_path), StorageValidName(Basename(raw_path))))

storage_filename(fs, self) ==
    StorageFilenameFrom(fs, PathJoin(upload_to, filename(self).val))

---------------------------------------------------------------------------
(* ResumableFile: operations, as functions of the storages *)

\* process_chunk without the delete of the record already stored under the key
ProcessChunkWithoutDelete(cs, ccn, data) ==
    IF Raised(ccn) THEN [exc |-> ccn.exc, chunk_storage |-> cs]
    ELSE [exc |-> "", chunk_storage |-> StorageSave(cs, ccn.val, data)]

\* ResumableFile.process_chunk(file): the chunk storage after the call
ProcessChunkFrom(cs, ccn, data) ==
    IF Raised(ccn) THEN [exc |-> ccn.exc, chunk_storage |-> cs]
    ELSE [exc |-> "",
          chunk_storage |->
              StorageSave(IF StorageExists(cs, ccn.val)
                          THEN StorageDelete(cs, ccn.val) ELSE cs,
                          ccn.val, data)]

process_chunk(cs, self, data) == ProcessChunkFrom(cs, current_chunk_name(self), data)

\* a loop of delete_chunks that deletes no chunk
DeleteNone(cs, names, failAt) == [exc |-> "", chunk_storage |-> cs]

\* the loop of delete_chunks over names; the delete of names[failAt] raises
\* (failAt = 0: no delete raises)
RECURSIVE DeleteEach(_, _, _)
DeleteEach(cs, names, failAt) ==
    IF names = <<>> THEN [exc |-> "", chunk_storage |-> cs]
    ELSE IF failAt = 1 THEN [exc |-> DeleteFailed, chunk_storage |-> cs]
    ELSE DeleteEach(StorageDelete(cs, Head(names)), Tail(names),
                    IF failAt = 0 THEN 0 ELSE failAt - 1)

\* ResumableFile.delete_chunks
DeleteChunksFrom(cs, names, failAt) ==
    IF Raised(names) THEN [exc |-> names.exc, chunk_storage |-> cs]
    ELSE DeleteEach(cs, names.val, failAt)

delete_chunks(cs, self, failAt) ==
    DeleteChunksFrom(cs, chunk_names(cs, self), failAt)

\* collect with the chunks deleted before the save instead of after it
CollectDeletingFirst(cs, fs, self, names, saveFails, failAt) ==
    LET f == FileFrom(cs, self, names)
        d == DeleteChunksFrom(cs, names, failAt)
    IN  IF Raised(f)
        THEN [exc |-> f.exc, ret |-> <<>>, opened |-> f.opened,
              chunk_storage |-> cs, field_storage |-> fs]
        ELSE IF Raised(d)
        THEN [exc |-> d.exc, ret |-> <<>>, opened |-> f.opened,
              chunk_storage |-> d.chunk_storage, field_storage |-> fs]
        ELSE IF saveFails
        THEN [exc |-> SaveFailed, ret |-> <<>>, opened |-> f.opened,
              chunk_storage |-> d.chunk_storage, field_storage |-> fs]
        ELSE [exc |-> "",
              ret |-> StorageAvailableName(fs, storage_filename(fs, self)),
              opened |-> f.opened,
              chunk_storage |-> d.chunk_storage,
              field_storage |-> StorageSave(fs, storage_filename(fs, self), f.val)]

\* ResumableFile.collect; saveFails: field_storage.save raises
CollectFrom(cs, fs, self, names, saveFails, failAt) ==
    LET f == FileFrom(cs, self, names)
        d == DeleteChunksFrom(cs, names, failAt)
    IN  IF Raised(f)
        THEN [exc |-> f.exc, ret |-> <<>>, opened |-> f.opened,
              chunk_storage |-> cs, field_storage |-> fs]
        ELSE IF saveFails
        THEN [exc |-> SaveFailed, ret |-> <<>>, opened |-> f.opened,
              chunk_storage |-> cs, field_storage |-> fs]
        ELSE [exc |-> d.exc,
              ret |-> IF Raised(d) THEN <<>>
                      ELSE StorageAvailableName(fs, storage_filename(fs, self)),
              opened |-> f.opened,
              chunk_storage |-> d.chunk_storage,
              field_storage |-> StorageSave(fs, storage_filename(fs, self), f.val)]

collect(cs, fs, self, saveFails, failAt) ==
    CollectFrom(cs, fs, self, chunk_names(cs, self), saveFails, failAt)

---------------------------------------------------------------------------
(* Requests *)

Request(user, name, total, number, current) ==
    [user |-> user,
     params |-> [resumableFilename |-> name, resumableTotalSize |-> total,
                 resumableChunkNumber |-> number,
                 resumableCurrentChunkSize |-> current]]

NameF         == <<"f">>
NameGlob      == <<"[", "f", "]">>
NameTraversal ==
    <<".", ".", "/", ".", ".", "/", "e", "t", "c", "/", "p", "a", "s", "s", "w", "d">>
NameDirectory == <<"d", "/">>

Users == {1}

\* the bodies of the chunk uploads
ChunkData == {<<0>>, <<1>>}

\* (resumableFilename, resumableTotalSize, resumableChunkNumber) of the requests:
\* a file of two bytes sent as chunks 1 and 2, and a file of one byte, sent as
\* chunk 1, whose name holds the characters of a character class
Uploads ==
    {<<NameF, <<"2">>, <<"1">>>>,
     <<NameF, <<"2">>, <<"2">>>>,
     <<NameGlob, <<"1">>, <<"1">>>>}

\* requests at the edges of the parameters: a file name with directories, a
\* file name that ends in "/", a total size that is no number, an empty file
EdgeUploads ==
    {<<NameTraversal, <<"1">>, <<"1">>>>,
     <<NameDirectory, <<"1">>, <<"1">>>>,
     <<NameF, <<"1", "/", "2">>, <<"1">>>>,
     <<NameF, <<"0">>, <<"1">>>>}

Requests(U, current) ==
    {Request(u, x[1], x[2], x[3], current) : u \in Users, x \in U}

---------------------------------------------------------------------------
(* The state machine: one call at a time *)

NoRequest == Request(0, <<>>, <<>>, <<>>, <<>>)

\* the workers of the server that run a call step by step
Procs == {1, 2}

\* a worker that has not started its call: pc is the position in the method,
\* checked the chunks is_complete summed up (key -> bytes), read the chunks
\* the file property read and merged their concatenation, wrote the objects
\* saved to the persistent storage, and overlapped tells whether another call
\* ran while this one did
Idle ==
    [pc |-> "idle", op |-> "", self |-> NoRequest, data |-> <<>>,
     checked |-> EmptyStorage, read |-> EmptyStorage, merged |-> <<>>,
     wrote |-> {},
     exc |-> "", ret |-> <<>>, overlapped |-> FALSE]

Init ==
    /\ chunk_storage = EmptyStorage
    /\ field_storage = EmptyStorage
    /\ lastOp = [op |-> "init", self |-> NoRequest, data |-> <<>>, old |-> <<>>,
                 exc |-> "", ret |-> <<>>]
    /\ opened = <<>>
    /\ calls = [p \in Procs |-> Idle]

\* the state after a call that returned r
Called(op, self, data, old, r) ==
    /\ chunk_storage' = r.chunk_storage
    /\ field_storage' = r.field_storage
    /\ lastOp' = [op |-> op, self |-> self, data |-> data, old |-> old,
                  exc |-> r.exc, ret |-> r.ret]
    /\ opened' = r.opened
    /\ calls' = calls

\* the bytes stored at the chunk key ccn, <<>> when there is none
StoredAt(cs, ccn) ==
    IF ~Raised(ccn) /\ StorageExists(cs, ccn.val) THEN cs[ccn.val] ELSE <<>>

\* a result of process_chunk or delete_chunks, which leave the persistent
\* storage alone, open no chunk and return nothing
OnChunks(r) ==
    [exc |-> r.exc, ret |-> <<>>, opened |-> <<>>,
     chunk_storage |-> r.chunk_storage, field_storage |-> field_storage]

\* the deletes that can raise in a loop over the chunk keys names: none (0),
\* or the k-th
FailAts(names) == 0..(IF Raised(names) THEN 0 ELSE Len(names.val))

\* a view calls process_chunk with the body of a chunk upload
ProcessChunk(U) ==
    \E data \in ChunkData : \E self \in Requests(U, Str(Len(data))) :
      \E ccn \in {current_chunk_name(self)} :
        Called("process_chunk", self, data, StoredAt(chunk_storage, ccn),
               OnChunks(ProcessChunkFrom(chunk_storage, ccn, data)))

\* a view calls delete_chunks
DeleteChunks(U) ==
    \E self \in Requests(U, <<"1">>) :
      \E names \in {chunk_names(chunk_storage, self)} :
        \E failAt \in FailAts(names) :
          Called("delete_chunks", self, <<>>, <<>>,
                 OnChunks(DeleteChunksFrom(chunk_storage, names, failAt)))

\* a view calls collect; the save can raise when there is a file to save, a
\* delete when the save went through (the model holds at most MaxFiles
\* persistent objects)
Collect(U) ==
    \E self \in Requests(U, <<"1">>) :
      \E names \in {chunk_names(chunk_storage, self)} :
        \E f \in {FileFrom(chunk_storage, self, names)} :
          \E saveFails \in IF Raised(f) THEN {FALSE} ELSE BOOLEAN :
            \E failAt \in IF Raised(f) \/ saveFails THEN {0} ELSE FailAts(names) :
              /\ Raised(f) \/ saveFails
                    \/ Cardinality(DOMAIN field_storage) < MaxFiles
              /\ \E r \in {CollectFrom(chunk_storage, field_storage, self, names,
                                       saveFails, failAt)} :
                    Called("collect", self, <<>>, <<>>, r)

Next == ProcessChunk(Uploads) \/ DeleteChunks(Uploads) \/ Collect(Uploads)

Spec == Init /\ [][Next]_vars

\* the same calls, for the requests at the edges of the parameters
NextEdge ==
    ProcessChunk(EdgeUploads) \/ DeleteChunks(EdgeUploads) \/ Collect(EdgeUploads)

SpecEdge == Init /\ [][NextEdge]_vars

---------------------------------------------------------------------------
(* Probing for chunks: the client declares a chunk size with every request, *)
(* which process_chunk does not compare with the body it stores             *)

\* the values of resumableCurrentChunkSize: the size of the bodies, a larger
\* size, and a string that is no number
ChunkSizes == {<<"1">>, <<"2">>, <<"k">>}

\* chunks 1 and 2 of a file of two bytes
ProbeUploads == {<<NameF, <<"2">>, <<"1">>>>, <<NameF, <<"2">>, <<"2">>>>}

\* a view calls process_chunk; the declared size of the chunk need not be the
\* size of the body (a truncated upload)
ProcessChunkSized(U) ==
    \E data \in ChunkData : \E declared \in ChunkSizes :
      \E self \in Requests(U, declared) :
        \E ccn \in {current_chunk_name(self)} :
          Called("process_chunk", self, data, StoredAt(chunk_storage, ccn),
                 OnChunks(ProcessChunkFrom(chunk_storage, ccn, data)))

\* a view reads chunk_exists (the GET request of the client); the value is
\* recorded as a sequence of one boolean
ChunkExists(U) ==
    \E declared \in ChunkSizes : \E self \in Requests(U, declared) :
      \E r \in {chunk_exists(chunk_storage, self)} :
        Called("chunk_exists", self, <<>>, <<>>,
               [exc |-> r.exc, ret |-> IF Raised(r) THEN <<>> ELSE <<r.val>>,
                opened |-> <<>>, chunk_storage |-> chunk_storage,
                field_storage |-> field_storage])

NextProbe ==
    \/ ProcessChunkSized(ProbeUploads)
    \/ ChunkExists(ProbeUploads)
    \/ DeleteChunks(ProbeUploads)

SpecProbe == Init /\ [][NextProbe]_vars

---------------------------------------------------------------------------
(* Two logical files of one uploader *)

\* two files of one byte, each sent as chunk 1: "f", and "[f]", whose name is
\* the pattern of a character class
PairUploads == {<<NameF, <<"1">>, <<"1">>>>, <<NameGlob, <<"1">>, <<"1">>>>}

NextPair ==
    \/ ProcessChunk(PairUploads)
    \/ DeleteChunks(PairUploads)
    \/ Collect(PairUploads)

SpecPair == Init /\ [][NextPair]_vars

---------------------------------------------------------------------------
(* Chunk numbers on both sides of the width of the padding *)

\* the values of resumableChunkNumber: two digits, four and five
OrderNumbers ==
    {<<"1", "0">>, <<"9", "9", "9", "9">>, <<"1", "0", "0", "0", "0">>}

\* chunks of one byte of the file "f"
OrderUploads == {<<NameF, <<"2">>, n>> : n \in OrderNumbers}

NextOrder ==
    \/ ProcessChunk(OrderUploads)
    \/ DeleteChunks(OrderUploads)
    \/ Collect(OrderUploads)

SpecOrder == Init /\ [][NextOrder]_vars

---------------------------------------------------------------------------
(* Concurrent calls: the chunks of a file are uploaded, then each worker runs *)
(* one call, process_chunk or collect, and the storage operations of the two  *)
(* calls interleave.  A step is one statement of the method; the listing and  *)
(* the reads of one property are taken as one step.                           *)

\* chunks 1 and 2 of a file of two bytes
ConcUploads == {<<NameF, <<"2">>, <<"1">>>>, <<NameF, <<"2">>, <<"2">>>>}

\* the request of the collect calls
CollectRequests == Requests({<<NameF, <<"2">>, <<"1">>>>}, <<"1">>)

AllIdle == \A p \in Procs : calls[p].pc = "idle"

InFlight(p) == calls[p].pc \notin {"idle", "done"}

\* worker p starts the call c; the calls in flight overlap with it
Begin(p, c) ==
    /\ calls[p].pc = "idle"
    /\ calls' = [q \in Procs |->
                   IF q = p
                   THEN [c EXCEPT !.overlapped = \E o \in Procs \ {p} : InFlight(o)]
                   ELSE IF InFlight(q) THEN [calls[q] EXCEPT !.overlapped = TRUE]
                   ELSE calls[q]]
    /\ UNCHANGED <<chunk_storage, field_storage, lastOp, opened>>

\* worker p is at position pc and moves on to the state c of its call, with
\* the storages cs and fs
Step(p, pc, c, cs, fs) ==
    /\ calls[p].pc = pc
    /\ calls' = [calls EXCEPT ![p] = c]
    /\ chunk_storage' = cs
    /\ field_storage' = fs
    /\ IF c.pc = "done"
       THEN /\ lastOp' = [op |-> c.op, self |-> c.self, data |-> c.data,
                          old |-> <<>>, exc |-> c.exc, ret |-> c.ret]
            /\ opened' = IF DOMAIN c.read = {} THEN <<>> ELSE Sorted(DOMAIN c.read)
       ELSE UNCHANGED <<lastOp, opened>>

\* a view starts process_chunk
BeginProcessChunk(p) ==
    \E data \in ChunkData : \E self \in Requests(ConcUploads, Str(Len(data))) :
        Begin(p, [Idle EXCEPT !.pc = "exists", !.op = "process_chunk",
                              !.self = self, !.data = data])

\* process_chunk: if self.chunk_storage.exists(self.current_chunk_name)
ProcessChunkExists(p) ==
    \E c \in {calls[p]} : \E ccn \in {current_chunk_name(c.self)} :
        Step(p, "exists",
             [c EXCEPT !.pc = IF StorageExists(chunk_storage, ccn.val)
                              THEN "delete" ELSE "save"],
             chunk_storage, field_storage)

\* process_chunk: self.chunk_storage.delete(self.current_chunk_name); the
\* delete of a key that is no longer stored does nothing
ProcessChunkDelete(p) ==
    \E c \in {calls[p]} : \E ccn \in {current_chunk_name(c.self)} :
        Step(p, "delete", [c EXCEPT !.pc = "save"],
             StorageDelete(chunk_storage, ccn.val), field_storage)

\* process_chunk: self.chunk_storage.save(self.current_chunk_name, file)
ProcessChunkSave(p) ==
    \E c \in {calls[p]} : \E ccn \in {current_chunk_name(c.self)} :
        Step(p, "save", [c EXCEPT !.pc = "done"],
             StorageSave(chunk_storage, ccn.val, c.data), field_storage)

\* a view starts collect
BeginCollect(p) ==
    \E self \in CollectRequests :
        Begin(p, [Idle EXCEPT !.pc = "check", !.op = "collect", !.self = self])

\* file: if not self.is_complete: raise Exception("Chunk(s) still missing")
CollectCheck(p) ==
    \E c \in {calls[p]} : \E complete \in {is_complete(chunk_storage, c.self)} :
        Step(p, "check",
             IF Raised(complete) THEN [c EXCEPT !.pc = "done", !.exc = complete.exc]
             ELSE IF ~complete.val THEN [c EXCEPT !.pc = "done", !.exc = ChunksMissing]
             ELSE [c EXCEPT !.pc = "read",
                            !.checked =
                                [k \in Range(chunk_names(chunk_storage, c.self).val)
                                   |-> chunk_storage[k]]],
             chunk_storage, field_storage)

\* file: for chunk_data in self.chunks(): outfile.write(chunk_data)
CollectRead(p) ==
    \E c \in {calls[p]} : \E names \in {chunk_names(chunk_storage, c.self).val} :
        Step(p, "read",
             [c EXCEPT !.pc = "store",
                       !.read = [k \in Range(names) |-> chunk_storage[k]],
                       !.merged = ReadAll(chunk_storage, names)],
             chunk_storage, field_storage)

\* collect: actual_filename = self.field_storage.save(self.storage_filename,
\* file_data)
CollectSave(p) ==
    \E c \in {calls[p]} :
      \E name \in {storage_filename(field_storage, c.self)} :
        /\ Cardinality(DOMAIN field_storage) < MaxFiles
        /\ Step(p, "store",
                [c EXCEPT !.pc = "cleanup",
                          !.ret = StorageAvailableName(field_storage, name),
                          !.wrote = {StorageAvailableName(field_storage, name)}],
                chunk_storage, StorageSave(field_storage, name, c.merged))

\* the last step of collect without the call of delete_chunks
CollectWithoutCleanup(p) ==
    \E c \in {calls[p]} :
        Step(p, "cleanup", [c EXCEPT !.pc = "done"], chunk_storage, field_storage)

\* collect: self.delete_chunks(); return actual_filename
CollectCleanup(p) ==
    \E c \in {calls[p]} : \E names \in {chunk_names(chunk_storage, c.self)} :
        Step(p, "cleanup", [c EXCEPT !.pc = "done"],
             DeleteChunksFrom(chunk_storage, names, 0).chunk_storage,
             field_storage)

NextConc ==
    \/ AllIdle /\ ProcessChunk(ConcUploads)
    \/ \E p \in Procs :
          \/ BeginProcessChunk(p)
          \/ ProcessChunkExists(p)
          \/ ProcessChunkDelete(p)
          \/ ProcessChunkSave(p)
          \/ BeginCollect(p)
          \/ CollectCheck(p)
          \/ CollectRead(p)
          \/ CollectSave(p)
          \/ CollectCleanup(p)

SpecConc == Init /\ [][NextConc]_vars

---------------------------------------------------------------------------
(* Two uploaders who send the same file names and total sizes *)

Uploaders == {1, 2}

\* a file of one byte sent as chunk 1, by each of the uploaders
UploaderUploads == {<<NameF, <<"1">>, <<"1">>>>}

RequestsOf(Us, U, current) ==
    {Request(u, x[1], x[2], x[3], current) : u \in Us, x \in U}

\* the calls of the views, for the requests R
ProcessChunkOf(Us, U) ==
    \E data \in ChunkData : \E self \in RequestsOf(Us, U, Str(Len(data))) :
      \E ccn \in {current_chunk_name(self)} :
        Called("process_chunk", self, data, StoredAt(chunk_storage, ccn),
               OnChunks(ProcessChunkFrom(chunk_storage, ccn, data)))

DeleteChunksOf(Us, U) ==
    \E self \in RequestsOf(Us, U, <<"1">>) :
      \E names \in {chunk_names(chunk_storage, self)} :
        Called("delete_chunks", self, <<>>, <<>>,
               OnChunks(DeleteChunksFrom(chunk_storage, names, 0)))

CollectOf(Us, U) ==
    \E self \in RequestsOf(Us, U, <<"1">>) :
      \E names \in {chunk_names(chunk_storage, self)} :
        \E f \in {FileFrom(chunk_storage, self, names)} :
          /\ Raised(f) \/ Cardinality(DOMAIN field_storage) < MaxFiles
          /\ \E r \in {CollectFrom(chunk_storage, field_storage, self, names,
                                   FALSE, 0)} :
                Called("collect", self, <<>>, <<>>, r)

NextUsers ==
    \/ ProcessChunkOf(Uploaders, UploaderUploads)
    \/ DeleteChunksOf(Uploaders, UploaderUploads)
    \/ CollectOf(Uploaders, UploaderUploads)

SpecUsers == Init /\ [][NextUsers]_vars

---------------------------------------------------------------------------
(* A client that resumes an upload: it asks chunk_exists for each chunk of
   its file, sends the chunks that are not there, and calls collect once
   is_complete is true *)

\* the files the client can upload, each with the bodies of its chunks
ResumeFiles ==
    {[name |-> NameF,    body |-> << <<0, 1>>, <<1, 0>> >>],
     [name |-> NameGlob, body |-> << <<0, 1>> >>]}

\* the client is logged in as user 1, or not at all (0)
ResumeUsers == {0, 1}

\* the chunks of a file, concatenated
RECURSIVE Content(_)
Content(body) ==
    IF body = <<>> THEN <<>> ELSE Head(body) \o Content(Tail(body))

\* the session of the client is the record of worker 1: self is the request
\* for chunk 1 of the file it uploads
Client == calls[1]

BodyOf(self) ==
    (CHOOSE x \in ResumeFiles : x.name = self.params.resumableFilename).body

\* the request of the client for chunk n of its file
ChunkRequest(self, n) ==
    [self EXCEPT !.params.resumableChunkNumber = Str(n),
                 !.params.resumableCurrentChunkSize = Str(Len(BodyOf(self)[n]))]

\* the client logs in or not, and picks a file
StartUpload ==
    /\ Client.pc = "idle"
    /\ \E u \in ResumeUsers, x \in ResumeFiles :
         calls' = [calls EXCEPT ![1] =
                     [Idle EXCEPT !.pc = "resume", !.op = "upload",
                                  !.self = Request(u, x.name,
                                                   Str(Len(Content(x.body))),
                                                   <<"1">>,
                                                   Str(Len(x.body[1])))]]
    /\ UNCHANGED <<chunk_storage, field_storage, lastOp, opened>>

\* chunk_exists answers False for chunk n of the file of the client
ChunkIsMissing(n) ==
    \E self \in {ChunkRequest(Client.self, n)} :
        chunk_exists(chunk_storage, self) = Return(FALSE)

\* the client sends chunk n, which chunk_exists does not report, and the
\* upload goes through
SendChunk ==
    /\ Client.pc = "resume"
    /\ \E n \in 1..Len(BodyOf(Client.self)) :
         /\ ChunkIsMissing(n)
         /\ \E self \in {ChunkRequest(Client.self, n)} :
              \E ccn \in {current_chunk_name(self)} :
                \E data \in {BodyOf(self)[n]} :
                  Called("process_chunk", self, data,
                         StoredAt(chunk_storage, ccn),
                         OnChunks(ProcessChunkFrom(chunk_storage, ccn, data)))

\* the upload of chunk n is interrupted: process_chunk stores a body cut short
\* after k bytes
InterruptedChunk ==
    /\ Client.pc = "resume"
    /\ \E n \in 1..Len(BodyOf(Client.self)) :
         /\ ChunkIsMissing(n)
         /\ \E self \in {ChunkRequest(Client.self, n)} :
              \E ccn \in {current_chunk_name(self)} :
                \E k \in 0..(Len(BodyOf(self)[n]) - 1) :
                  \E data \in {SubSeq(BodyOf(self)[n], 1, k)} :
                    Called("process_chunk", self, data,
                           StoredAt(chunk_storage, ccn),
                           OnChunks(ProcessChunkFrom(chunk_storage, ccn, data)))

\* the client calls collect once is_complete is true; no storage call fails
CollectWhenComplete ==
    /\ Client.pc = "resume"
    /\ Cardinality(DOMAIN field_storage) < MaxFiles
    /\ \E self \in {Client.self} :
       \E fn \in {filename(self)} :
       \E ccn \in {ChunkNameFrom(self, fn)} :
       \E names \in {ChunkNamesFrom(chunk_storage, fn, ccn)} :
       \E sz \in {SizeFrom(chunk_storage, names)} :
         /\ IsCompleteFrom(ParseInt(self.params.resumableTotalSize), sz)
               = Return(TRUE)
         /\ \E r \in {CollectFrom(chunk_storage, field_storage, self, names,
                                   FALSE, 0)} :
               /\ chunk_storage' = r.chunk_storage
               /\ field_storage' = r.field_storage
               /\ lastOp' = [op |-> "collect", self |-> self, data |-> <<>>,
                             old |-> <<>>, exc |-> r.exc, ret |-> r.ret]
               /\ opened' = r.opened
               /\ calls' = [calls EXCEPT ![1].pc =
                              IF r.exc = "" THEN "done" ELSE "resume",
                                         ![1].ret = r.ret]

NextResume ==
    \/ StartUpload
    \/ SendChunk
    \/ InterruptedChunk
    \/ CollectWhenComplete

\* the steps by which the client goes on with its upload
GoOn == StartUpload \/ SendChunk \/ CollectWhenComplete

\* the client does not stop while it has a chunk to send or a complete upload
\* to collect, so that uploads are interrupted finitely often in a row
SpecResume == Init /\ [][NextResume]_vars /\ WF_vars(GoOn)

---------------------------------------------------------------------------
(* Vocabulary of the properties *)

\* the requests of the two specifications
AllRequests  == Requests(Uploads, <<"1">>)
EdgeRequests == Requests(EdgeUploads, <<"1">>)

\* the chunk numbers the requests send
ChunkNumbers == {<<"1">>, <<"2">>}

\* the request self, for chunk number n
WithNumber(self, n) == [self EXCEPT !.params.resumableChunkNumber = n]

\* the chunk key process_chunk writes for chunk n (a natural number) of self's file
KeyOf(self, n) == current_chunk_name(WithNumber(self, Str(n))).val

\* the chunk records process_chunk stored for the logical file of self: those
\* under the chunk key of one of its chunk numbers
OwnKeys(cs, self) ==
    {k \in DOMAIN cs :
        \E n \in ChunkNumbers : current_chunk_name(WithNumber(self, n)) = Return(k)}

\* the sum of the stored sizes of a set of chunk keys
RECURSIVE SizeOfAll(_, _)
SizeOfAll(cs, K) ==
    IF K = {} THEN 0
    ELSE LET k == CHOOSE x \in K : TRUE IN Len(cs[k]) + SizeOfAll(cs, K \ {k})

\* chunk 1, chunk 2, ..., chunk N of self's file, concatenated
RECURSIVE InNumberOrder(_, _, _)
InNumberOrder(cs, self, N) ==
    IF N = 0 THEN <<>> ELSE InNumberOrder(cs, self, N - 1) \o cs[KeyOf(self, N)]

\* the file of self is stored as chunks 1..N and nothing else, and the sizes of
\* the chunks sum to the declared total size
UploadedAs(cs, self, N) ==
    /\ \A n \in 1..Cardinality(ChunkNumbers) : (KeyOf(self, n) \in DOMAIN cs) <=> n <= N
    /\ SizeOfAll(cs, {KeyOf(self, n) : n \in 1..N})
          = ParseInt(self.params.resumableTotalSize)

\* the step is a call of op for the request self
IsCall(op, self) == lastOp'.op = op /\ lastOp'.self = self

\* the objects a step adds to the persistent storage
Written == DOMAIN field_storage' \ DOMAIN field_storage

---------------------------------------------------------------------------
(* Properties *)

\* C1: when a file has been uploaded as chunks 1..N whose sizes sum to the
\* declared total size (in whatever order the chunks arrived), a collect whose
\* save does not fail writes one object to the persistent storage, and its
\* bytes are chunk 1, chunk 2, ..., chunk N in that order.
C1_CollectWritesChunksInNumberOrder ==
    [][\A self \in AllRequests : \A N \in 1..Cardinality(ChunkNumbers) :
          (UploadedAs(chunk_storage, self, N) /\ IsCall("collect", self)
           /\ lastOp'.exc # SaveFailed)
          => \E k \in Written :
                /\ Written = {k}
                /\ field_storage'[k] = InNumberOrder(chunk_storage, self, N)]_vars

\* C2: when the chunk storage holds only chunk records of one logical file,
\* is_complete is true if and only if the stored sizes of those records sum to
\* the declared total size.
C2_CompleteIffSizesSumToTotal ==
    \A self \in AllRequests :
        DOMAIN chunk_storage = OwnKeys(chunk_storage, self)
        => is_complete(chunk_storage, self)
             = Return(SizeOfAll(chunk_storage, OwnKeys(chunk_storage, self))
                        = ParseInt(self.params.resumableTotalSize))

\* the bytes of the merged file at the position of the i-th listed chunk
MergedAt(cs, merged, names, i) ==
    LET offset == SumSizes(cs, SubSeq(names, 1, i - 1))
    IN  SubSeq(merged, offset + 1, offset + Len(cs[names[i]]))

\* C3: a process_chunk that returns leaves exactly one chunk record under its
\* chunk key, holding the bytes of this call, and changes no other record; when
\* the merge lists the key, the merged file holds the bytes of this call at the
\* position of the key; and when the key already held the same bytes, the merge
\* result and is_complete are what they were before the call.
C3_ReuploadIsLastWriteWins ==
    [][(lastOp'.op = "process_chunk" /\ lastOp'.exc = "")
       => \A self \in {lastOp'.self} :
          \A key \in {current_chunk_name(self).val} :
          \A names \in {chunk_names(chunk_storage', self)} :
          \A merged \in {FileFrom(chunk_storage', self, names)} :
              /\ DOMAIN chunk_storage' = DOMAIN chunk_storage \cup {key}
              /\ chunk_storage'[key] = lastOp'.data
              /\ \A k \in DOMAIN chunk_storage \ {key} :
                     chunk_storage'[k] = chunk_storage[k]
              /\ ~Raised(merged)
                 => \A i \in 1..Len(names.val) :
                       names.val[i] = key
                       => MergedAt(chunk_storage', merged.val, names.val, i)
                            = lastOp'.data
              /\ (key \in DOMAIN chunk_storage /\ chunk_storage[key] = lastOp'.data)
                 => /\ merged = file(chunk_storage, self)
                    /\ is_complete(chunk_storage', self)
                         = is_complete(chunk_storage, self)]_vars

\* a chunk of a completely uploaded file has just been uploaded again, with
\* other bytes than the ones stored before
C3_Witness ==
    /\ lastOp.op = "process_chunk"
    /\ lastOp.exc = ""
    /\ lastOp.old # <<>>
    /\ lastOp.old # lastOp.data
    /\ ~Raised(file(chunk_storage, lastOp.self))
    /\ current_chunk_name(lastOp.self).val
         \in Range(chunk_names(chunk_storage, lastOp.self).val)

\* C4, as the specification states it: a collect that directly follows a
\* successful collect of the same request raises "Chunk(s) still missing" and
\* leaves the persistent storage and the chunk storage as they are, whatever
\* the declared total size.
C4_SecondCollectFailsForEveryTotal ==
    [][(/\ lastOp.op = "collect" /\ lastOp.exc = ""
        /\ lastOp'.op = "collect" /\ lastOp'.self = lastOp.self)
       => /\ lastOp'.exc = ChunksMissing
          /\ field_storage' = field_storage
          /\ chunk_storage' = chunk_storage]_vars

\* C4, amended: a collect that directly follows a successful collect of the
\* same request, whose declared total size is not zero, raises "Chunk(s) still
\* missing" and leaves the persistent storage and the chunk storage as they are.
C4_SecondCollectFailsForNonZeroTotal ==
    [][(/\ lastOp.op = "collect" /\ lastOp.exc = ""
        /\ lastOp'.op = "collect" /\ lastOp'.self = lastOp.self
        /\ ParseInt(lastOp.self.params.resumableTotalSize) # 0)
       => /\ lastOp'.exc = ChunksMissing
          /\ field_storage' = field_storage
          /\ chunk_storage' = chunk_storage]_vars

\* a collect of a file of one byte has just failed; the file was collected
\* before (its object is in the persistent storage) and none of its chunks is
\* stored
C4_Witness ==
    /\ lastOp.op = "collect"
    /\ lastOp.exc = ChunksMissing
    /\ ParseInt(lastOp.self.params.resumableTotalSize) = 1
    /\ storage_filename(EmptyStorage, lastOp.self) \in DOMAIN field_storage
    /\ Cardinality(DOMAIN field_storage) = 1
    /\ OwnKeys(chunk_storage, lastOp.self) = {}

\* C5: a collect whose save fails raises the error of the save, deletes or
\* alters no chunk record and writes nothing; is_complete is true after it as
\* before it, and a collect of the same request whose save works succeeds.
C5_FailedSaveKeepsChunks ==
    [][lastOp'.op = "collect"
       => LET self == lastOp'.self
          IN  /\ (~Raised(file(chunk_storage, self)) /\ Written = {})
                 => lastOp'.exc = SaveFailed
              /\ lastOp'.exc = SaveFailed
                 => /\ chunk_storage' = chunk_storage
                    /\ field_storage' = field_storage
                    /\ is_complete(chunk_storage, self) = Return(TRUE)
                    /\ is_complete(chunk_storage', self) = Return(TRUE)
                    /\ collect(chunk_storage', field_storage', self, FALSE, 0).exc
                         = ""]_vars

\* the save of a collect of a completely uploaded file has just failed
C5_Witness ==
    /\ lastOp.op = "collect"
    /\ lastOp.exc = SaveFailed
    /\ OwnKeys(chunk_storage, lastOp.self) # {}
    /\ is_complete(chunk_storage, lastOp.self) = Return(TRUE)

\* C6: a collect that saved the merged file returns the name of the saved
\* object although the delete of one chunk record failed, and the cleanup went
\* on to the other chunk records: at most the one record whose delete failed
\* is left of the file.
C6_CleanupSurvivesDeleteFailure ==
    [][(lastOp'.op = "collect" /\ Written # {})
       => /\ lastOp'.exc = ""
          /\ lastOp'.ret \in Written
          /\ Cardinality(OwnKeys(chunk_storage', lastOp'.self)) <= 1]_vars

\* C7: when is_complete is false, the file property raises "Chunk(s) still
\* missing" and opens no chunk, and a collect raises the same error, opens no
\* chunk, writes nothing to the persistent storage and deletes or changes no
\* chunk record.
C7_IncompleteFailsBeforeAnyWork ==
    /\ [](\A self \in AllRequests :
            is_complete(chunk_storage, self) = Return(FALSE)
            => file(chunk_storage, self)
                 = [exc |-> ChunksMissing, val |-> <<>>, opened |-> <<>>])
    /\ [][(lastOp'.op = "collect"
           /\ is_complete(chunk_storage, lastOp'.self) = Return(FALSE))
          => /\ lastOp'.exc = ChunksMissing
             /\ opened' = <<>>
             /\ field_storage' = field_storage
             /\ chunk_storage' = chunk_storage]_vars

\* a collect has just failed on a file of which one chunk is stored and one
\* is missing
C7_Witness ==
    /\ lastOp.op = "collect"
    /\ lastOp.exc = ChunksMissing
    /\ lastOp.self.params.resumableFilename = NameF
    /\ Cardinality(OwnKeys(chunk_storage, lastOp.self)) = 1
    /\ Range(chunk_names(chunk_storage, lastOp.self).val)
         = OwnKeys(chunk_storage, lastOp.self)
    /\ is_complete(chunk_storage, lastOp.self) = Return(FALSE)

\* the chunk subdirectory of the uploader of self
UploaderDirectory(self) == PathJoin(chunks_subdirectory, UserDirectory(self.user))

\* C8: after a process_chunk that returned, the key of the logical file of the
\* request holds no "/", and the chunk key the call wrote is a direct child of
\* the chunk subdirectory of the uploader.
C8_KeysHaveNoPathSeparator ==
    (lastOp.op = "process_chunk" /\ lastOp.exc = "")
    => /\ "/" \notin Range(filename(lastOp.self).val)
       /\ Dirname(current_chunk_name(lastOp.self).val) = UploaderDirectory(lastOp.self)
       /\ \A k \in OwnKeys(chunk_storage, lastOp.self) :
             Dirname(k) = UploaderDirectory(lastOp.self)

PasswdKey      == <<"1", "_", "p", "a", "s", "s", "w", "d">>
PasswdChunkKey == <<"c", "h", "u", "n", "k", "s", "/", "u", "s", "e", "r", "_", "1", "/", "1", "_", "p", "a", "s", "s", "w", "d", "_", "p", "a", "r", "t", "_", "0", "0", "0", "1">>

\* the operations that derive the key of the logical file all raise
\* "Invalid filename" for the request self, and change no storage
RejectsFilename(self) ==
    /\ filename(self) = Raise(InvalidFilename)
    /\ chunk_exists(chunk_storage, self) = Raise(InvalidFilename)
    /\ is_complete(chunk_storage, self) = Raise(InvalidFilename)
    /\ \A data \in ChunkData :
          process_chunk(chunk_storage, self, data)
            = [exc |-> InvalidFilename, chunk_storage |-> chunk_storage]
    /\ LET c == collect(chunk_storage, field_storage, self, FALSE, 0)
       IN  /\ c.exc = InvalidFilename
           /\ c.chunk_storage = chunk_storage
           /\ c.field_storage = field_storage

\* C9, as the specification states it: the requests with the file name
\* "../../etc/passwd" and the requests whose file name sanitises to the empty
\* string are rejected with "Invalid filename" by process_chunk, chunk_exists,
\* is_complete and collect, and no chunk record is stored for them.
C9_TraversalNameIsRejected ==
    /\ lastOp.self.params.resumableFilename \in {NameTraversal, NameDirectory}
       => /\ lastOp.exc = InvalidFilename
          /\ RejectsFilename(lastOp.self)
    /\ PasswdChunkKey \notin DOMAIN chunk_storage

\* C9, amended: the file name "../../etc/passwd" is not rejected but reduced to
\* its last component: the key of the file is "<total size>_passwd", and
\* process_chunk stores the chunk under that key, directly in the chunk
\* subdirectory of the uploader; no chunk key keeps a "." of the name.  A file
\* name that sanitises to the empty string is rejected with "Invalid filename" by process_chunk, chunk_exists,
\* is_complete and collect, and these calls store and change nothing.
C9_TraversalNameIsReduced ==
    /\ [](\A self \in EdgeRequests :
            /\ self.params.resumableFilename = NameTraversal
               => /\ filename(self) = Return(PasswdKey)
                  /\ current_chunk_name(self) = Return(PasswdChunkKey)
            /\ self.params.resumableFilename = NameDirectory
               => RejectsFilename(self))
    /\ [](\A k \in DOMAIN chunk_storage : "." \notin Range(k))
    /\ [][/\ (lastOp'.op = "process_chunk"
              /\ lastOp'.self.params.resumableFilename = NameTraversal)
             => /\ lastOp'.exc = ""
                /\ DOMAIN chunk_storage' = DOMAIN chunk_storage \cup {PasswdChunkKey}
                /\ chunk_storage'[PasswdChunkKey] = lastOp'.data
          /\ lastOp'.self.params.resumableFilename = NameDirectory
             => /\ lastOp'.exc = InvalidFilename
                /\ chunk_storage' = chunk_storage
                /\ field_storage' = field_storage]_vars

\* a process_chunk for a file name that sanitises to the empty string has just
\* been rejected, and a chunk of the file named "../../etc/passwd" is stored
\* under the reduced name
C9_Witness ==
    /\ lastOp.op = "process_chunk"
    /\ lastOp.self.params.resumableFilename = NameDirectory
    /\ lastOp.exc = InvalidFilename
    /\ PasswdChunkKey \in DOMAIN chunk_storage

\* C10: chunk_names lists exactly the chunk records that process_chunk stored
\* for the request's uploader and logical file and that are still stored.
C10_ChunkNamesListsOwnChunks ==
    \A self \in AllRequests :
        /\ ~Raised(chunk_names(chunk_storage, self))
        /\ Range(chunk_names(chunk_storage, self).val) = OwnKeys(chunk_storage, self)

\* C12: chunk_exists is true exactly when a record is stored under the chunk
\* key of the request and the size of the record is the declared size of the
\* chunk; otherwise it is false, or raises when the declared size is no number.
C12_ChunkExistsIffStoredWithDeclaredSize ==
    lastOp.op = "chunk_exists"
    => \A key \in {current_chunk_name(lastOp.self).val} :
       \A declared \in {ParseInt(lastOp.self.params.resumableCurrentChunkSize)} :
          /\ lastOp.ret = <<TRUE>>
             <=> (key \in DOMAIN chunk_storage /\ Len(chunk_storage[key]) = declared)
          /\ lastOp.ret # <<TRUE>>
             => IF declared = -1 THEN lastOp.exc = ValueError /\ lastOp.ret = <<>>
                ELSE lastOp.exc = "" /\ lastOp.ret = <<FALSE>>

\* chunk_exists has just been read for a chunk of declared size 2 of which a
\* record of one byte is stored, and was false
C12_Witness ==
    /\ lastOp.op = "chunk_exists"
    /\ lastOp.ret = <<FALSE>>
    /\ lastOp.self.params.resumableCurrentChunkSize = <<"2">>
    /\ current_chunk_name(lastOp.self).val \in DOMAIN chunk_storage
    /\ Len(chunk_storage[current_chunk_name(lastOp.self).val]) = 1

\* the requests for the two files of SpecPair
PairRequests == Requests(PairUploads, <<"1">>)

\* C11: a process_chunk, collect or delete_chunks for one logical file changes
\* neither the chunk listing, nor the accumulated size, nor is_complete, nor the
\* merged bytes of a logical file of the same uploader with another key.
C11_OtherFilesAreUntouched ==
    [][lastOp'.op \in {"process_chunk", "collect", "delete_chunks"}
       => \A other \in PairRequests :
            (other.user = lastOp'.self.user
             /\ filename(other) # filename(lastOp'.self))
            => /\ chunk_names(chunk_storage', other) = chunk_names(chunk_storage, other)
               /\ size(chunk_storage', other) = size(chunk_storage, other)
               /\ is_complete(chunk_storage', other)
                    = is_complete(chunk_storage, other)
               /\ file(chunk_storage', other).val
                    = file(chunk_storage, other).val]_vars

\* C13: after a collect that returned, no chunk record stored for the logical
\* file is left in the chunk storage, and the value returned is the key under
\* which the save stored the merged file.
C13_CollectLeavesNoChunk ==
    [][(lastOp'.op = "collect" /\ lastOp'.exc = "")
       => /\ OwnKeys(chunk_storage', lastOp'.self) = {}
          /\ Written = {lastOp'.ret}]_vars

\* the requests of SpecOrder
OrderRequests == Requests(OrderUploads, <<"1">>)

\* the chunk number of the request whose chunk key is key
NumberOf(key) ==
    ParseInt((CHOOSE r \in OrderRequests : current_chunk_name(r) = Return(key))
                .params.resumableChunkNumber)

\* C14: the chunk keys of one logical file sort as their chunk numbers do: one
\* of a smaller number is strictly less, in the order of sorted(), than one of
\* a larger number, so chunk_names lists the stored chunks by ascending chunk
\* number.
C14_ChunkKeysSortByNumber ==
    \A self \in OrderRequests :
      \A names \in {chunk_names(chunk_storage, self).val} :
        \A i, j \in 1..Len(names) :
            NumberOf(names[i]) < NumberOf(names[j])
            => (i < j /\ StrLess(names[i], names[j]))

\* the workers whose call is a collect
Collectors == {p \in Procs : calls[p].op = "collect"}

\* C15: two collect calls of a completely uploaded file that run one after the
\* other persist at most one object: whenever the persistent storage holds two
\* objects, each was saved by a collect that overlapped with the other.
C15_TwoCopiesOnlyWhenCollectsOverlap ==
    /\ (\A p \in Procs : calls[p].pc = "done" /\ ~calls[p].overlapped)
       => Cardinality(DOMAIN field_storage) <= 1
    /\ Cardinality(DOMAIN field_storage) >= 2
       => /\ Collectors = Procs
          /\ \A p \in Procs : calls[p].overlapped /\ calls[p].wrote # {}

\* two overlapping collect calls have both passed the test of is_complete,
\* read the same chunks and saved: the persistent storage holds two copies of
\* the file
C15_Witness ==
    /\ Collectors = Procs
    /\ \A p \in Procs : calls[p].pc = "done" /\ calls[p].exc = ""
    /\ \A p, q \in Procs :
          /\ calls[p].read = calls[q].read
          /\ Len(calls[p].merged) = 2
          /\ p # q => calls[p].wrote # calls[q].wrote
    /\ \A p \in Procs : \A k \in calls[p].wrote :
          k \in DOMAIN field_storage /\ field_storage[k] = calls[p].merged
    /\ Cardinality(DOMAIN field_storage) = 2

\* the records chunk_names lists for the logical file of self that are not the
\* chunk key of another chunk number than that of self
ListedForNumber(cs, self) ==
    Range(chunk_names(cs, self).val)
      \ {current_chunk_name(WithNumber(self, n)).val :
            n \in ChunkNumbers \ {self.params.resumableChunkNumber}}

\* C16: when two process_chunk calls for the same chunk key have both
\* finished, however their steps interleaved, chunk_names lists exactly one
\* record for that chunk number, the record holds the body of one of the two
\* calls, and the accumulated size counts the chunk number once.
C16_ConcurrentUploadsLeaveOneRecord ==
    \A p, q \in Procs :
        (/\ p # q
         /\ calls[p].op = "process_chunk" /\ calls[p].pc = "done"
         /\ calls[q].op = "process_chunk" /\ calls[q].pc = "done"
         /\ current_chunk_name(calls[p].self) = current_chunk_name(calls[q].self))
        => \A self \in {calls[p].self} : \A key \in {current_chunk_name(self).val} :
              /\ ListedForNumber(chunk_storage, self) = {key}
              /\ chunk_storage[key] \in {calls[p].data, calls[q].data}
              /\ size(chunk_storage, self).val
                   = SizeOfAll(chunk_storage, OwnKeys(chunk_storage, self))

\* C17: every object a collect saved has as many bytes as the declared total
\* size, and is the concatenation of the chunks that the test of is_complete
\* summed up, whatever process_chunk calls ran meanwhile.
C17_PersistedObjectIsComplete ==
    \A p \in Collectors : \A k \in calls[p].wrote :
        /\ Len(field_storage[k]) = ParseInt(calls[p].self.params.resumableTotalSize)
        /\ calls[p].read = calls[p].checked

\* C18: the cleanup of a collect deletes only chunk records that the call read
\* into the file it saved, with the bytes it read: a record that a
\* process_chunk stored after the read is not deleted.
C18_CleanupDeletesOnlyMergedChunks ==
    [][\A p \in Procs :
          (calls[p].pc = "cleanup" /\ calls'[p].pc = "done")
          => \A k \in DOMAIN chunk_storage \ DOMAIN chunk_storage' :
                /\ k \in DOMAIN calls[p].read
                /\ chunk_storage[k] = calls[p].read[k]]_vars

\* the requests of the two uploaders
UploaderRequests == RequestsOf(Uploaders, UploaderUploads, <<"1">>)

\* the chunk records in the chunk subdirectory of user
RecordsOf(cs, user) ==
    [k \in {x \in DOMAIN cs :
              Dirname(x) = PathJoin(chunks_subdirectory, UserDirectory(user))}
       |-> cs[k]]

\* C19: a process_chunk, delete_chunks or collect of one uploader leaves what
\* is stored under every chunk key of the other uploader as it is, and changes
\* neither the chunk listing, nor the size, nor is_complete, nor the merged
\* bytes of the other uploader's files, although file names and total sizes
\* are the same; is_complete and the merged bytes of an uploader are those
\* computed from the records of that uploader alone.
C19_UploadersDoNotInterfere ==
    /\ [][lastOp'.op \in {"process_chunk", "delete_chunks", "collect"}
          => \A o \in RequestsOf(Uploaders \ {lastOp'.self.user}, UploaderUploads, <<"1">>) :
                   \A ccn \in {current_chunk_name(o)} :
                   \A total \in {ParseInt(o.params.resumableTotalSize)} :
                   \A before \in {chunk_names(chunk_storage, o)} :
                   \A after \in {chunk_names(chunk_storage', o)} :
                     /\ StorageExists(chunk_storage', ccn.val)
                          = StorageExists(chunk_storage, ccn.val)
                     /\ StoredAt(chunk_storage', ccn) = StoredAt(chunk_storage, ccn)
                     /\ after = before
                     /\ SizeFrom(chunk_storage', after) = SizeFrom(chunk_storage, before)
                     /\ IsCompleteFrom(total, SizeFrom(chunk_storage', after))
                          = IsCompleteFrom(total, SizeFrom(chunk_storage, before))
                     /\ FileFrom(chunk_storage', o, after)
                          = FileFrom(chunk_storage, o, before)]_vars
    /\ [](\A self \in UploaderRequests :
            \A own \in {RecordsOf(chunk_storage, self.user)} :
            \A total \in {ParseInt(self.params.resumableTotalSize)} :
            \A names \in {chunk_names(chunk_storage, self)} :
            \A ownNames \in {chunk_names(own, self)} :
               /\ IsCompleteFrom(total, SizeFrom(chunk_storage, names))
                    = IsCompleteFrom(total, SizeFrom(own, ownNames))
               /\ FileFrom(chunk_storage, self, names) = FileFrom(own, self, ownNames))

\* uploader 1 has just collected the file "f" of total size 1 while uploader 2
\* has the chunk of a file of the same name and total size stored, with another
\* byte; the chunk of uploader 2 is still stored
C19_Witness ==
    /\ lastOp.op = "collect"
    /\ lastOp.exc = ""
    /\ lastOp.self.user = 1
    /\ \A o \in {Request(2, NameF, <<"1">>, <<"1">>, <<"1">>)} :
          /\ is_complete(chunk_storage, o) = Return(TRUE)
          /\ file(chunk_storage, o).val # field_storage[lastOp.ret]
          /\ Cardinality(OwnKeys(chunk_storage, o)) = 1
    /\ OwnKeys(chunk_storage, lastOp.self) = {}

\* the file x of the client is persisted with its bytes, and no chunk record
\* of it is left
Persisted(x) ==
    /\ \E k \in DOMAIN field_storage : field_storage[k] = Content(x.body)
    /\ \E self \in {Client.self} : OwnKeys(chunk_storage, self) = {}

\* a step other than collect leaves the chunks chunk_exists reports as they are
StoredChunksAreKept ==
    (Client.pc = "resume" /\ lastOp'.op # "collect") =>
        \A n \in 1..Len(BodyOf(Client.self)) :
            ~ChunkIsMissing(n) =>
                \A self \in {ChunkRequest(Client.self, n)} :
                    \A key \in {current_chunk_name(self).val} :
                        /\ key \in DOMAIN chunk_storage'
                        /\ chunk_storage'[key] = chunk_storage[key]

\* C20: a client that keeps sending the chunks chunk_exists does not report,
\* interrupted finitely often, and calls collect once is_complete is true,
\* eventually has its file persisted with the right bytes and no chunk record
\* of the file left, whatever the file; until then the chunks that are stored
\* stay as they are
C20_ResumedUploadIsEventuallyPersisted ==
    /\ \A x \in ResumeFiles :
         (Client.pc = "resume" /\ Client.self.params.resumableFilename = x.name)
            ~> Persisted(x)
    /\ [][StoredChunksAreKept]_vars

=============================================================================
